---- MODULE Spec2Model ----
(***************************************************************************)
(* Model of the two HTTP-triggered functions of the repository:            *)
(*   create_db.main  (the resource provisioner) with its two provisioning  *)
(*                   steps create_storage_account and                      *)
(*                   create_vector_database_and_index, and                 *)
(*   list_db.main    (the catalog lister).                                 *)
(* Strings the code computes with (names, titles, environment values) are  *)
(* tuples of one-character strings, so that formatting, lower-casing,      *)
(* filtering and truncation are computed, not assumed.                     *)
(***************************************************************************)
EXTENDS Integers, Sequences, FiniteSets, TLC

VARIABLES
    \* ---- create_db: process and deployment state
    env,                        \* os.environ of the process (name -> value)
    now,                        \* int(time.time())
    AZURE_STORAGE_ACCOUNT_KEY,  \* the module-level global
    \* ---- create_db: the provider's state
    storageAccounts,            \* storage account name -> its primary key
    searchServices,             \* search service name -> its admin key
    indexes,                    \* set of <<service name, index name>>
    \* ---- create_db: the request being handled
    pc,                         \* position of main
    req_body,                   \* the body of the request
    sanitized_title,
    storage_account_name,
    search_account_name,
    storage_config,
    admin_key,
    response,                   \* the last HttpResponse returned
    ops,                        \* external operations issued by the request
    \* ---- create_db: history
    storage_time,               \* the clock value read for the storage name
    search_time,                \* the clock value read for the search name
    storageAtCall,              \* storageAccounts when create_storage_account was entered
    searchAtCall,               \* searchServices when create_vector_database_and_index was entered
    indexesAtCall,              \* indexes at that same moment
    firstStorageConfig,         \* name -> configuration first returned for it
    firstSearchConfig,          \* name -> configuration first returned for it
    storage_step_done,          \* some request has completed its storage step
    storage_step_key,           \* the key the latest completed storage step returned
    requests,                   \* requests received so far
    \* ---- list_db: the relational store, each table in the order a SELECT returns it
    databases,
    users,
    database_contributors,
    database_files,
    database_tags,
    \* ---- list_db: the request being handled
    lpc,                        \* position of main
    databases_raw,
    users_map,                  \* the dictionary `users`
    contributors_map,
    files_map,
    tags_map,
    list_response,              \* the last HttpResponse returned
    queries                     \* the steps of the read sequence taken, with their outcome

provVars == <<env, now, AZURE_STORAGE_ACCOUNT_KEY, storageAccounts, searchServices,
              indexes, pc, req_body, sanitized_title, storage_account_name,
              search_account_name, storage_config, admin_key, response, ops, storage_time,
              search_time, storageAtCall, searchAtCall, indexesAtCall,
              firstStorageConfig, firstSearchConfig, storage_step_done,
              storage_step_key, requests>>

tables == <<databases, users, database_contributors, database_files, database_tags>>

listLocals == <<databases_raw, users_map, contributors_map, files_map, tags_map>>

listVars == <<tables, lpc, listLocals, list_response, queries>>

vars == <<provVars, listVars>>

----------------------------------------------------------------------------
(* Bounds and program constants *)

MaxTicks == 1

MaxRequests == 2

MaxChildRows == 2

SuffixMod == 10000

TitleLimit == 20

StartTime == SuffixMod - 1

None == "None"

----------------------------------------------------------------------------
(* Strings *)

UpperLetters == <<"A","B","C","D","E","F","G","H","I","J","K","L","M",
                  "N","O","P","Q","R","S","T","U","V","W","X","Y","Z">>

LowerLetters == <<"a","b","c","d","e","f","g","h","i","j","k","l","m",
                  "n","o","p","q","r","s","t","u","v","w","x","y","z">>

DigitChars == <<"0","1","2","3","4","5","6","7","8","9">>

Whitespace == {" ", "\t", "\n"}

\* str.lower() on one character
LowerChar(c) ==
    IF \E i \in 1..26 : UpperLetters[i] = c
    THEN LowerLetters[CHOOSE i \in 1..26 : UpperLetters[i] = c]
    ELSE c

Lower(s) == [i \in 1..Len(s) |-> LowerChar(s[i])]

\* the character class [a-z0-9]
InClass(c) ==
    \/ \E i \in 1..26 : LowerLetters[i] = c
    \/ \E i \in 1..10 : DigitChars[i] = c

\* s[:n]
Prefix(s, n) == IF Len(s) <= n THEN s ELSE SubSeq(s, 1, n)

\* str.strip() leaves nothing
IsBlank(s) == \A i \in 1..Len(s) : s[i] \in Whitespace

\* re.sub(r"[^a-z0-9]", "", title.lower())[:20]
Sanitize(title) == Prefix(SelectSeq(Lower(title), InClass), TitleLimit)

\* str(n) for n >= 0, as f"{n}" formats it
RECURSIVE Decimal(_)
Decimal(n) ==
    IF n < 10 THEN <<DigitChars[n + 1]>>
    ELSE Decimal(n \div 10) \o <<DigitChars[(n % 10) + 1]>>

\* the suffix without the reduction
Suffix_NoMod(t) == t

\* int(time.time()) % 10000
Suffix(t) == t % SuffixMod

\* f"{base}{int(time.time()) % 10000}"
ResourceName(base, t) == base \o Decimal(Suffix(t))

\* f"https://{storage_name}.blob.core.windows.net"
StorageUrl(name) == <<"https://">> \o name \o <<".blob.core.windows.net">>

\* f"https://{search_account_name}.search.windows.net"
SearchEndpoint(name) == <<"https://">> \o name \o <<".search.windows.net">>

----------------------------------------------------------------------------
(* Deployment configuration *)

DefaultStorageBase == <<"m","y","s","t","o","r","a","g","e","a","c","c","t">>

DefaultSearchBase == <<"m","y","s","e","a","r","c","h","a","c","c","t">>

DefaultIndexName == <<"rag-vector-index">>

SubId == <<"s","u","b","1">>

GroupId == <<"r","g","1">>

\* the environments the process may be deployed with
Envs ==
    LET full == [k \in {"AZURE_SUBSCRIPTION_ID", "AZURE_RESOURCE_GROUP"} |->
                    IF k = "AZURE_SUBSCRIPTION_ID" THEN SubId ELSE GroupId]
        custom == [k \in {"AZURE_SUBSCRIPTION_ID", "AZURE_RESOURCE_GROUP",
                          "STORAGE_ACCOUNT_BASE", "SEARCH_ACCOUNT_BASE",
                          "SEARCH_INDEX_NAME"} |->
                    CASE k = "AZURE_SUBSCRIPTION_ID" -> SubId
                      [] k = "AZURE_RESOURCE_GROUP" -> GroupId
                      [] k = "STORAGE_ACCOUNT_BASE" -> <<"s","t","g">>
                      [] k = "SEARCH_ACCOUNT_BASE" -> <<"s","r","c","h">>
                      [] k = "SEARCH_INDEX_NAME" -> <<"docs-index">>]
    IN  { full, custom,
          [k \in {"AZURE_RESOURCE_GROUP"} |-> GroupId],
          [k \in {"AZURE_SUBSCRIPTION_ID"} |-> SubId],
          [full EXCEPT !["AZURE_SUBSCRIPTION_ID"] = <<>>],
          [full EXCEPT !["AZURE_RESOURCE_GROUP"] = <<>>] }

\* os.environ.get(k, default)
EnvGet(k, default) == IF k \in DOMAIN env THEN env[k] ELSE default

\* `not os.environ.get(k)`
EnvMissing(k) == IF k \in DOMAIN env THEN env[k] = <<>> ELSE TRUE

storage_account_base == EnvGet("STORAGE_ACCOUNT_BASE", DefaultStorageBase)

search_account_base == EnvGet("SEARCH_ACCOUNT_BASE", DefaultSearchBase)

index_name == EnvGet("SEARCH_INDEX_NAME", DefaultIndexName)

\* only the subscription is looked at
ConfigMissing_SubscriptionOnly == EnvMissing("AZURE_SUBSCRIPTION_ID")

\* `not subscription_id or not resource_group`
ConfigMissing ==
    IF EnvMissing("AZURE_SUBSCRIPTION_ID") THEN TRUE
    ELSE EnvMissing("AZURE_RESOURCE_GROUP")

----------------------------------------------------------------------------
(* Request bodies *)

\* a JSON value, as far as main looks at it
JNull == [kind |-> "null", str |-> <<>>, empty |-> TRUE]

JStr(s) == [kind |-> "string", str |-> s, empty |-> (s = <<>>)]

JNum(zero) == [kind |-> "number", str |-> <<>>, empty |-> zero]

JArr(isEmpty) == [kind |-> "array", str |-> <<>>, empty |-> isEmpty]

Titles ==
    { <<>>,
      <<" ", "\t">>,
      <<"R","e","s","e","a","r","c","h"," ","P","a","p","e","r","s">>,
      <<"A","-","v","e","r","y","-","l","o","n","g","-","T","I","T","L","E",
        "-","o","f","-","2","6","-","c","h">> }

TitleValues ==
    {JNull, JNum(TRUE), JNum(FALSE), JArr(TRUE), JArr(FALSE)} \cup {JStr(t) : t \in Titles}

NoFields == [k \in {} |-> JNull]

\* what req.get_json() is given: text that is not JSON, a JSON value that is
\* not an object, an object without "title", an object with one
Bodies ==
    {[kind |-> k, fields |-> NoFields] :
        k \in {"invalid", "null", "number", "string", "array", "object"}}
    \cup {[kind |-> "object", fields |-> [k \in {"title"} |-> v]] : v \in TitleValues}

NoBody == [kind |-> "none", fields |-> NoFields]

\* req_body.get("title")
GetTitle(b) == IF "title" \in DOMAIN b.fields THEN b.fields["title"] ELSE JNull

\* Python truthiness of a JSON value
Truthy(v) == v.kind # "null" /\ ~v.empty

\* not (`not title or not isinstance(title, str) or not title.strip()`)
TitleOk(v) == Truthy(v) /\ v.kind = "string" /\ ~IsBlank(v.str)

----------------------------------------------------------------------------
(* Responses *)

NoResponse == [status |-> 0, mimetype |-> "none", payload |-> [none |-> TRUE]]

TextResponse(code, msg) ==
    [status |-> code, mimetype |-> "text/plain", payload |-> [text |-> msg]]

\* an exception that leaves main: the host answers for the function
Unhandled(exc) ==
    [status |-> 500, mimetype |-> "unhandled", payload |-> [exception |-> exc]]

JsonResponse(payload) ==
    [status |-> 200, mimetype |-> "application/json", payload |-> payload]

NoStorageConfig ==
    [AZURE_STORAGE_URL |-> <<>>, AZURE_STORAGE_NAME |-> <<>>, AZURE_STORAGE_KEY |-> None]

----------------------------------------------------------------------------
(* The provider, as the management clients see it *)

StorageKeys == {"sk1", "sk2"}

SearchKeys == {"ak1"}

ProbeFaults == {"Transient", "Auth"}

\* what an existence probe (get_properties, accounts.get) can answer
ProbeResults(name, accounts) ==
    (IF name \in DOMAIN accounts THEN {"ok"} ELSE {"NotFound"}) \cup ProbeFaults

\* what any other operation can answer
CallResults == {"ok", "Fault"}

\* the provider's accounts after a begin_create that completed: an account
\* that already exists keeps its keys
Created(accounts, name, key) ==
    IF name \in DOMAIN accounts THEN accounts
    ELSE [n \in DOMAIN accounts \cup {name} |->
            IF n = name THEN key ELSE accounts[n]]

Op(op, name, result) == [op |-> op, name |-> name, result |-> result]

----------------------------------------------------------------------------
(* create_db.main *)

\* the process before its first request
ProvStart ==
    /\ now = StartTime
    /\ AZURE_STORAGE_ACCOUNT_KEY = None
    /\ storageAccounts = <<>>
    /\ searchServices = <<>>
    /\ indexes = {}
    /\ pc = "idle"
    /\ req_body = NoBody
    /\ sanitized_title = <<>>
    /\ storage_account_name = <<>>
    /\ search_account_name = <<>>
    /\ storage_config = NoStorageConfig
    /\ admin_key = None
    /\ response = NoResponse
    /\ ops = <<>>
    /\ storage_time = 0
    /\ search_time = 0
    /\ storageAtCall = <<>>
    /\ searchAtCall = <<>>
    /\ indexesAtCall = {}
    /\ firstStorageConfig = <<>>
    /\ firstSearchConfig = <<>>
    /\ storage_step_done = FALSE
    /\ storage_step_key = None
    /\ requests = 0

\* the clock advances at any moment
Tick ==
    /\ now < StartTime + MaxTicks
    /\ now' = now + 1
    /\ UNCHANGED listVars
    /\ UNCHANGED <<env, AZURE_STORAGE_ACCOUNT_KEY, storageAccounts, searchServices,
                   indexes, pc, req_body, sanitized_title, storage_account_name,
                   search_account_name, storage_config, admin_key, response, ops,
                   storage_time, search_time, storageAtCall, searchAtCall,
                   indexesAtCall, firstStorageConfig, firstSearchConfig,
                   storage_step_done, storage_step_key, requests>>

provider == <<storageAccounts, searchServices, indexes>>

history == <<storage_time, search_time, storageAtCall, searchAtCall, indexesAtCall,
             firstStorageConfig, firstSearchConfig, storage_step_done,
             storage_step_key, requests>>

\* a request arrives
Begin(b, stem) ==
    /\ pc = "idle"
    /\ requests < MaxRequests
    /\ requests' = requests + 1
    /\ req_body' = b
    /\ sanitized_title' = stem
    /\ UNCHANGED listVars
    /\ UNCHANGED <<env, now, AZURE_STORAGE_ACCOUNT_KEY, provider, storage_account_name,
                   search_account_name, storage_config, admin_key, ops, storage_time,
                   search_time, storageAtCall, searchAtCall, indexesAtCall,
                   firstStorageConfig, firstSearchConfig, storage_step_done,
                   storage_step_key>>

\* main has returned: the host sends the response and the locals of the
\* request are gone
Finish ==
    /\ pc = "returned"
    /\ pc' = "idle"
    /\ req_body' = NoBody
    /\ sanitized_title' = <<>>
    /\ storage_account_name' = <<>>
    /\ search_account_name' = <<>>
    /\ storage_config' = NoStorageConfig
    /\ admin_key' = None
    /\ response' = NoResponse
    /\ ops' = <<>>
    /\ storage_time' = 0
    /\ search_time' = 0
    /\ storageAtCall' = <<>>
    /\ searchAtCall' = <<>>
    /\ indexesAtCall' = {}
    /\ UNCHANGED listVars
    /\ UNCHANGED <<env, now, AZURE_STORAGE_ACCOUNT_KEY, provider, firstStorageConfig,
                   firstSearchConfig, storage_step_done, storage_step_key, requests>>

\* req.get_json() raises ValueError
RejectInvalidJson(b) ==
    /\ b.kind = "invalid"
    /\ Begin(b, <<>>)
    /\ response' = TextResponse(400, "Invalid JSON body")
    /\ pc' = "returned"

\* req_body.get raises AttributeError outside any try: the body is JSON but
\* no object
CrashNotObject(b) ==
    /\ b.kind \notin {"invalid", "object"}
    /\ Begin(b, <<>>)
    /\ response' = Unhandled("AttributeError")
    /\ pc' = "returned"

RejectTitle(b) ==
    /\ b.kind = "object"
    /\ ~TitleOk(GetTitle(b))
    /\ Begin(b, <<>>)
    /\ response' = TextResponse(400, "Missing or invalid 'title' in request body")
    /\ pc' = "returned"

RejectConfig(b) ==
    /\ b.kind = "object"
    /\ TitleOk(GetTitle(b))
    /\ ConfigMissing
    /\ Begin(b, Sanitize(GetTitle(b).str))
    /\ response' = TextResponse(500, "Missing required environment variables")
    /\ pc' = "returned"

Accept(b) ==
    /\ b.kind = "object"
    /\ TitleOk(GetTitle(b))
    /\ ~ConfigMissing
    /\ Begin(b, Sanitize(GetTitle(b).str))
    /\ response' = NoResponse
    /\ pc' = "clients"

\* the failed operation is tried again
AfterFault_Retry(at) == at

\* where main continues after an operation raised: `except Exception` returns
AfterFault(at) == "returned"

\* creation is attempted whatever the probe answered
AfterProbe_AlwaysAbsent(result, found, absent) == absent

\* only "not found" counts as absent
AfterProbe_NotFoundOnly(result, found, absent) ==
    IF result = "NotFound" THEN absent ELSE found

\* where a provisioning step continues after its existence probe
AfterProbe(result, found, absent) == IF result = "ok" THEN found ELSE absent

\* an operation raised: the step logs and re-raises, main answers 500
Raise(at) ==
    /\ pc' = AfterFault(at)
    /\ response' = TextResponse(500, "Error")

\* DefaultAzureCredential(), the two management clients
BuildClients(r) ==
    /\ pc = "clients"
    /\ ops' = Append(ops, Op("credential", <<>>, r))
    /\ IF r = "ok"
       THEN pc' = "storage_probe" /\ UNCHANGED response
       ELSE Raise("clients")
    /\ UNCHANGED listVars
    /\ UNCHANGED <<env, now, AZURE_STORAGE_ACCOUNT_KEY, provider, req_body,
                   sanitized_title, storage_account_name, search_account_name,
                   storage_config, admin_key, history>>

----------------------------------------------------------------------------
(* create_storage_account, called from main *)

\* the global is set once and then kept
CachedKeyAfter_KeepFirst(config) ==
    IF AZURE_STORAGE_ACCOUNT_KEY = None THEN config["AZURE_STORAGE_KEY"]
    ELSE AZURE_STORAGE_ACCOUNT_KEY

\* the global main sets from the configuration the storage step returned
CachedKeyAfter(config) == config["AZURE_STORAGE_KEY"]

\* main reads the clock and names the account; the step probes for it
StorageProbe(r) ==
    LET name == ResourceName(storage_account_base, now) IN
    /\ pc = "storage_probe"
    /\ r \in ProbeResults(name, storageAccounts)
    /\ storage_account_name' = name
    /\ storage_time' = now
    /\ storageAtCall' = storageAccounts
    /\ ops' = Append(ops, Op("storage.get_properties", name, r))
    /\ pc' = AfterProbe(r, "storage_keys", "storage_create")
    /\ UNCHANGED listVars
    /\ UNCHANGED <<env, now, AZURE_STORAGE_ACCOUNT_KEY, provider, req_body,
                   sanitized_title, search_account_name, storage_config, admin_key,
                   response, search_time, searchAtCall, indexesAtCall,
                   firstStorageConfig, firstSearchConfig, storage_step_done,
                   storage_step_key, requests>>

\* begin_create and poller.result()
StorageCreate(r, k) ==
    /\ pc = "storage_create"
    /\ storage_account_name \in DOMAIN storageAccounts
            => k = storageAccounts[storage_account_name]
    /\ ops' = Append(ops, Op("storage.begin_create", storage_account_name, r))
    /\ IF r = "ok"
       THEN /\ storageAccounts' = Created(storageAccounts, storage_account_name, k)
            /\ pc' = "storage_keys"
            /\ UNCHANGED response
       ELSE /\ Raise("storage_create")
            /\ UNCHANGED storageAccounts
    /\ UNCHANGED listVars
    /\ UNCHANGED <<env, now, AZURE_STORAGE_ACCOUNT_KEY, searchServices, indexes,
                   req_body, sanitized_title, storage_account_name,
                   search_account_name, storage_config, admin_key, history>>

\* list_keys, keys.keys[0].value, the returned dictionary, and main's
\* assignment of the global
StorageListKeys(r) ==
    LET config == [AZURE_STORAGE_URL |-> StorageUrl(storage_account_name),
                   AZURE_STORAGE_NAME |-> storage_account_name,
                   AZURE_STORAGE_KEY |-> storageAccounts[storage_account_name]]
    IN
    /\ pc = "storage_keys"
    /\ ops' = Append(ops, Op("storage.list_keys", storage_account_name, r))
    /\ IF r = "ok"
       THEN /\ storage_config' = config
            /\ AZURE_STORAGE_ACCOUNT_KEY' = CachedKeyAfter(config)
            /\ storage_step_done' = TRUE
            /\ storage_step_key' = storageAccounts[storage_account_name]
            /\ firstStorageConfig' =
                 IF storage_account_name \in DOMAIN firstStorageConfig
                 THEN firstStorageConfig
                 ELSE [n \in DOMAIN firstStorageConfig \cup {storage_account_name} |->
                        IF n = storage_account_name THEN config
                        ELSE firstStorageConfig[n]]
            /\ pc' = "search_probe"
            /\ UNCHANGED response
       ELSE /\ Raise("storage_keys")
            /\ UNCHANGED <<storage_config, AZURE_STORAGE_ACCOUNT_KEY,
                           storage_step_done, storage_step_key, firstStorageConfig>>
    /\ UNCHANGED listVars
    /\ UNCHANGED <<env, now, provider, req_body, sanitized_title,
                   storage_account_name, search_account_name, admin_key,
                   storage_time, search_time, storageAtCall, searchAtCall,
                   indexesAtCall, firstSearchConfig, requests>>

----------------------------------------------------------------------------
(* create_vector_database_and_index, called from main *)

SearchProbe(r) ==
    LET name == ResourceName(search_account_base, now) IN
    /\ pc = "search_probe"
    /\ r \in ProbeResults(name, searchServices)
    /\ search_account_name' = name
    /\ search_time' = now
    /\ searchAtCall' = searchServices
    /\ indexesAtCall' = indexes
    /\ ops' = Append(ops, Op("search.accounts.get", name, r))
    /\ pc' = AfterProbe(r, "search_keys", "search_create")
    /\ UNCHANGED listVars
    /\ UNCHANGED <<env, now, AZURE_STORAGE_ACCOUNT_KEY, provider, req_body,
                   sanitized_title, storage_account_name, storage_config, admin_key,
                   response, storage_time, storageAtCall, firstStorageConfig,
                   firstSearchConfig, storage_step_done, storage_step_key, requests>>

SearchCreate(r, k) ==
    /\ pc = "search_create"
    /\ search_account_name \in DOMAIN searchServices
            => k = searchServices[search_account_name]
    /\ ops' = Append(ops, Op("search.begin_create", search_account_name, r))
    /\ IF r = "ok"
       THEN /\ searchServices' = Created(searchServices, search_account_name, k)
            /\ pc' = "search_keys"
            /\ UNCHANGED response
       ELSE /\ Raise("search_create")
            /\ UNCHANGED searchServices
    /\ UNCHANGED listVars
    /\ UNCHANGED <<env, now, AZURE_STORAGE_ACCOUNT_KEY, storageAccounts, indexes,
                   req_body, sanitized_title, storage_account_name,
                   search_account_name, storage_config, admin_key, history>>

\* main passes no admin_key, so `if not admin_key` always asks for the keys
SearchListKeys(r) ==
    /\ pc = "search_keys"
    /\ ops' = Append(ops, Op("search.list_keys", search_account_name, r))
    /\ IF r = "ok"
       THEN /\ admin_key' = searchServices[search_account_name]
            /\ pc' = "index"
            /\ UNCHANGED response
       ELSE /\ Raise("search_keys")
            /\ UNCHANGED admin_key
    /\ UNCHANGED listVars
    /\ UNCHANGED <<env, now, AZURE_STORAGE_ACCOUNT_KEY, provider, req_body,
                   sanitized_title, storage_account_name, search_account_name,
                   storage_config, history>>

\* what main returns once both steps have returned
Payload(storage, vector_search) ==
    [storage |-> storage, vector_search |-> vector_search]

\* create_or_update_index, the returned dictionary, and main's response
CreateIndex(r) ==
    LET config == [search_endpoint |-> SearchEndpoint(search_account_name),
                   search_admin_key |-> admin_key,
                   index_name |-> index_name]
    IN
    /\ pc = "index"
    /\ ops' = Append(ops, Op("search.create_or_update_index", search_account_name, r))
    /\ IF r = "ok"
       THEN /\ indexes' = indexes \cup {<<search_account_name, index_name>>}
            /\ firstSearchConfig' =
                 IF search_account_name \in DOMAIN firstSearchConfig
                 THEN firstSearchConfig
                 ELSE [n \in DOMAIN firstSearchConfig \cup {search_account_name} |->
                        IF n = search_account_name THEN config
                        ELSE firstSearchConfig[n]]
            /\ response' = JsonResponse(Payload(storage_config, config))
            /\ pc' = "returned"
       ELSE /\ Raise("index")
            /\ UNCHANGED <<indexes, firstSearchConfig>>
    /\ UNCHANGED listVars
    /\ UNCHANGED <<env, now, AZURE_STORAGE_ACCOUNT_KEY, storageAccounts,
                   searchServices, req_body, sanitized_title, storage_account_name,
                   search_account_name, storage_config, admin_key, storage_time,
                   search_time, storageAtCall, searchAtCall, indexesAtCall,
                   firstStorageConfig, storage_step_done, storage_step_key, requests>>

----------------------------------------------------------------------------

ProvNext ==
    \/ Tick
    \/ Finish
    \/ \E b \in Bodies : RejectInvalidJson(b)
    \/ \E b \in Bodies : CrashNotObject(b)
    \/ \E b \in Bodies : RejectTitle(b)
    \/ \E b \in Bodies : RejectConfig(b)
    \/ \E b \in Bodies : Accept(b)
    \/ \E r \in CallResults : BuildClients(r)
    \/ \E r \in {"ok", "NotFound"} \cup ProbeFaults : StorageProbe(r)
    \/ \E r \in CallResults, k \in StorageKeys : StorageCreate(r, k)
    \/ \E r \in CallResults : StorageListKeys(r)
    \/ \E r \in {"ok", "NotFound"} \cup ProbeFaults : SearchProbe(r)
    \/ \E r \in CallResults, k \in SearchKeys : SearchCreate(r, k)
    \/ \E r \in CallResults : SearchListKeys(r)
    \/ \E r \in CallResults : CreateIndex(r)

----------------------------------------------------------------------------
(* list_db: the relational store *)

DbIds == {"d1", "d2"}

UserIds == {"u1", "u2"}

UserName(u) == IF u = "u1" THEN "Ann" ELSE "Bob"

FileNames == {"a.pdf"}

TagNames == {"x", "y"}

\* all sequences of distinct elements of S
RECURSIVE Orders(_)
Orders(S) ==
    {<<>>} \cup UNION {{<<x>> \o o : o \in Orders(S \ {x})} : x \in S}

\* `databases`: id is the key of the table
DatabasesTables ==
    UNION {[1..Len(ids) -> {[id |-> ids[i], owner_id |-> u] : i \in 1..Len(ids), u \in UserIds}]
              : ids \in Orders(DbIds)}

WellKeyed(rows) ==
    \A i, j \in 1..Len(rows) : rows[i].id = rows[j].id => i = j

\* `users`: id is the key of the table
UsersTables ==
    {[i \in 1..Len(o) |-> [id |-> o[i], name |-> UserName(o[i])]] : o \in {<<>>, <<"u1">>, <<"u2">>, <<"u1", "u2">>}}

ContributorRows == {[database_id |-> d, user_id |-> u] : d \in DbIds, u \in UserIds}

FileRows == {[database_id |-> d, name |-> f] : d \in DbIds, f \in FileNames}

TagRows == {[database_id |-> d, tag |-> t] : d \in DbIds, t \in TagNames}

\* SELECT dc.database_id, u.id as user_id, u.name
\* FROM database_contributors dc JOIN users u ON dc.user_id = u.id
JoinContributors(dc, us) ==
    LET matched(r) == \E i \in 1..Len(us) : us[i].id = r.user_id
        name(r) == us[CHOOSE i \in 1..Len(us) : us[i].id = r.user_id].name
        kept == SelectSeq(dc, matched)
    IN  [i \in 1..Len(kept) |->
            [database_id |-> kept[i].database_id, user_id |-> kept[i].user_id,
             name |-> name(kept[i])]]

----------------------------------------------------------------------------
(* list_db.main *)

EmptyMap == [k \in {} |-> <<>>]

\* {u['id']: u['name'] for u in rows}
RECURSIVE UsersDict(_)
UsersDict(rows) ==
    IF rows = <<>> THEN [k \in {} |-> ""]
    ELSE LET m == UsersDict(SubSeq(rows, 1, Len(rows) - 1))
             r == rows[Len(rows)]
         IN  [k \in DOMAIN m \cup {r.id} |-> IF k = r.id THEN r.name ELSE m[k]]

\* m[k] = [v]: an earlier row of the same key is lost
SetDefaultAppend_Overwrite(m, k, v) ==
    [x \in DOMAIN m \cup {k} |-> IF x = k THEN <<v>> ELSE m[x]]

\* m.setdefault(k, []).append(v)
SetDefaultAppend(m, k, v) ==
    [x \in DOMAIN m \cup {k} |->
        IF x = k THEN (IF k \in DOMAIN m THEN Append(m[k], v) ELSE <<v>>)
        ELSE m[x]]

\* the grouping loops: rows of [database_id, item] into database_id -> items
RECURSIVE GroupRows(_)
GroupRows(rows) ==
    IF rows = <<>> THEN EmptyMap
    ELSE LET r == rows[Len(rows)]
         IN  SetDefaultAppend(GroupRows(SubSeq(rows, 1, Len(rows) - 1)),
                              r.database_id, r.item)

\* m.get(k, [])
GetOrEmpty(m, k) == IF k \in DOMAIN m THEN m[k] ELSE <<>>

\* users.get(owner_id, "Unknown")
OwnerName(m, owner_id) == IF owner_id \in DOMAIN m THEN m[owner_id] ELSE "Unknown"

ContributorItems(rows) ==
    [i \in 1..Len(rows) |->
        [database_id |-> rows[i].database_id,
         item |-> [id |-> rows[i].user_id, name |-> rows[i].name]]]

FileItems(rows) ==
    [i \in 1..Len(rows) |->
        [database_id |-> rows[i].database_id, item |-> [name |-> rows[i].name]]]

TagItems(rows) ==
    [i \in 1..Len(rows) |->
        [database_id |-> rows[i].database_id, item |-> rows[i].tag]]

\* the loop over databases_raw
Entries(raw, um, cm, fm, tm) ==
    [i \in 1..Len(raw) |->
        [id |-> raw[i].id,
         owner |-> [id |-> raw[i].owner_id, name |-> OwnerName(um, raw[i].owner_id)],
         contributors |-> GetOrEmpty(cm, raw[i].id),
         tags |-> GetOrEmpty(tm, raw[i].id),
         files |-> GetOrEmpty(fm, raw[i].id)]]

\* the exception is swallowed and the sequence goes on
AfterQuery_Swallow(r, next) == next

\* where main continues after a step of the read sequence: an exception
\* leaves the try block for `except Exception`, which returns
AfterQuery(r, next) == IF r = "ok" THEN next ELSE "returned"

ListInitLocals ==
    /\ lpc = "idle"
    /\ databases_raw = <<>>
    /\ users_map = [k \in {} |-> ""]
    /\ contributors_map = EmptyMap
    /\ files_map = EmptyMap
    /\ tags_map = EmptyMap
    /\ list_response = NoResponse
    /\ queries = <<>>

\* one step of the read sequence: it is logged, and a failure answers 500
ListStep(at, r, next) ==
    /\ lpc = at
    /\ queries' = Append(queries, [step |-> at, result |-> r])
    /\ lpc' = AfterQuery(r, next)
    /\ list_response' =
         IF AfterQuery(r, next) = "returned" THEN TextResponse(500, "Error")
         ELSE list_response
    /\ UNCHANGED <<provVars, tables>>

\* a request arrives; get_mysql_connection() and conn.cursor(dictionary=True)
Connect(r) ==
    /\ lpc = "idle"
    /\ queries' = <<[step |-> "connect", result |-> r]>>
    /\ lpc' = AfterQuery(r, "databases")
    /\ list_response' =
         IF AfterQuery(r, "databases") = "returned" THEN TextResponse(500, "Error")
         ELSE list_response
    /\ UNCHANGED <<provVars, tables, listLocals>>

QueryDatabases(r) ==
    /\ ListStep("databases", r, "users")
    /\ databases_raw' = IF r = "ok" THEN databases ELSE databases_raw
    /\ UNCHANGED <<users_map, contributors_map, files_map, tags_map>>

QueryUsers(r) ==
    /\ ListStep("users", r, "contributors")
    /\ users_map' = IF r = "ok" THEN UsersDict(users) ELSE users_map
    /\ UNCHANGED <<databases_raw, contributors_map, files_map, tags_map>>

QueryContributors(r) ==
    /\ ListStep("contributors", r, "files")
    /\ contributors_map' =
         IF r = "ok"
         THEN GroupRows(ContributorItems(JoinContributors(database_contributors, users)))
         ELSE contributors_map
    /\ UNCHANGED <<databases_raw, users_map, files_map, tags_map>>

QueryFiles(r) ==
    /\ ListStep("files", r, "tags")
    /\ files_map' = IF r = "ok" THEN GroupRows(FileItems(database_files)) ELSE files_map
    /\ UNCHANGED <<databases_raw, users_map, contributors_map, tags_map>>

\* conn.cursor(), the tags query and its grouping loop
QueryTags(r) ==
    /\ ListStep("tags", r, "assemble")
    /\ tags_map' = IF r = "ok" THEN GroupRows(TagItems(database_tags)) ELSE tags_map
    /\ UNCHANGED <<databases_raw, users_map, contributors_map, files_map>>

\* the closes, the construction of the list and the response
Assemble ==
    /\ lpc = "assemble"
    /\ lpc' = "returned"
    /\ list_response' =
         JsonResponse([databases |->
             Entries(databases_raw, users_map, contributors_map, files_map, tags_map)])
    /\ UNCHANGED <<provVars, tables, listLocals, queries>>

\* main has returned: the host sends the response and the locals are gone
ListFinish ==
    /\ lpc = "returned"
    /\ lpc' = "idle"
    /\ databases_raw' = <<>>
    /\ users_map' = [k \in {} |-> ""]
    /\ contributors_map' = EmptyMap
    /\ files_map' = EmptyMap
    /\ tags_map' = EmptyMap
    /\ list_response' = NoResponse
    /\ queries' = <<>>
    /\ UNCHANGED <<provVars, tables>>

----------------------------------------------------------------------------
(* The two functions as specifications *)

\* the store as the provisioner's specification sees it: never read
NoTables ==
    /\ databases = <<>>
    /\ users = <<>>
    /\ database_contributors = <<>>
    /\ database_files = <<>>
    /\ database_tags = <<>>

Init == env \in Envs /\ ProvStart /\ NoTables /\ ListInitLocals

Next == ProvNext

Spec == Init /\ [][Next]_vars

\* the store holds any content within the bound on the rows of the three
\* child tables
ListInit ==
    /\ env = [k \in {} |-> <<>>]
    /\ ProvStart
    /\ databases \in DatabasesTables
    /\ WellKeyed(databases)
    /\ users \in UsersTables
    /\ \E nc \in 0..MaxChildRows :
         \E nf \in 0..(MaxChildRows - nc) :
           \E nt \in 0..(MaxChildRows - nc - nf) :
             /\ database_contributors \in [1..nc -> ContributorRows]
             /\ database_files \in [1..nf -> FileRows]
             /\ database_tags \in [1..nt -> TagRows]
    /\ ListInitLocals

ListNext ==
    \/ \E r \in CallResults : Connect(r)
    \/ \E r \in CallResults : QueryDatabases(r)
    \/ \E r \in CallResults : QueryUsers(r)
    \/ \E r \in CallResults : QueryContributors(r)
    \/ \E r \in CallResults : QueryFiles(r)
    \/ \E r \in CallResults : QueryTags(r)
    \/ Assemble
    \/ ListFinish

ListSpec == ListInit /\ [][ListNext]_vars

----------------------------------------------------------------------------
(* Properties of create_db *)

StorageOps == {"storage.get_properties", "storage.begin_create", "storage.list_keys"}

SearchOps == {"search.accounts.get", "search.begin_create", "search.list_keys",
              "search.create_or_update_index"}

ProbeOps == {"storage.get_properties", "search.accounts.get"}

ExternalOrder == <<"storage.get_properties", "storage.begin_create", "storage.list_keys",
                   "search.accounts.get", "search.begin_create", "search.list_keys",
                   "search.create_or_update_index">>

Rank(op) == CHOOSE i \in 1..Len(ExternalOrder) : ExternalOrder[i] = op

IsProviderOp(o) == o.op # "credential"

Issued(op) == \E i \in 1..Len(ops) : ops[i].op = op

NoFaultIn(opset) ==
    \A i \in 1..Len(ops) : ops[i].op \in opset => ops[i].result = "ok"

Unset(k) == IF k \in DOMAIN env THEN env[k] = <<>> ELSE TRUE

TitleAccepted ==
    /\ req_body.kind = "object"
    /\ "title" \in DOMAIN req_body.fields
    /\ req_body.fields["title"].kind = "string"
    /\ \E i \in 1..Len(req_body.fields["title"].str) :
          req_body.fields["title"].str[i] \notin Whitespace

\* C1: a request whose body is not valid JSON, or is any JSON value without
\* a 'title', or whose 'title' is not a string or is blank, is answered 400
\* and no external call is made for it.
C1_InvalidRequestIs400 ==
    (pc = "returned" /\ ~TitleAccepted) => (response.status = 400 /\ ops = <<>>)

\* C2: with a valid title, if AZURE_SUBSCRIPTION_ID or AZURE_RESOURCE_GROUP is
\* unset or empty, the answer is 500 and no external call is ever made: no
\* credential, no storage, search-service or index operation.
C2_MissingConfigIs500 ==
    (Unset("AZURE_SUBSCRIPTION_ID") \/ Unset("AZURE_RESOURCE_GROUP")) =>
        /\ ops = <<>>
        /\ pc \in {"idle", "returned"}
        /\ (pc = "returned" /\ TitleAccepted) => response.status = 500

C2_Witness ==
    /\ pc = "returned"
    /\ TitleAccepted
    /\ "AZURE_RESOURCE_GROUP" \notin DOMAIN env
    /\ ~Unset("AZURE_SUBSCRIPTION_ID")
    /\ response.status = 500
    /\ ops = <<>>

\* C3: a provisioning step run again for a name it has provisioned before,
\* with no provider fault, does not raise, issues no begin_create, leaves the
\* provider's accounts (resp. services and indexes) as they were when it was
\* entered, and returns the configuration the first run returned.
C3_Idempotent ==
    /\ (/\ storage_account_name \in DOMAIN storageAtCall
        /\ NoFaultIn(StorageOps))
       => /\ ~Issued("storage.begin_create")
          /\ storageAccounts = storageAtCall
          /\ pc # "storage_create"
          /\ Issued("storage.list_keys") =>
                /\ storage_account_name \in DOMAIN firstStorageConfig
                /\ storage_config = firstStorageConfig[storage_account_name]
    /\ (/\ search_account_name \in DOMAIN searchAtCall
        /\ <<search_account_name, index_name>> \in indexesAtCall
        /\ NoFaultIn(SearchOps))
       => /\ ~Issued("search.begin_create")
          /\ searchServices = searchAtCall
          /\ indexes = indexesAtCall
          /\ pc # "search_create"
          /\ Issued("search.create_or_update_index") =>
                /\ response.status = 200
                /\ search_account_name \in DOMAIN firstSearchConfig
                /\ response.payload.vector_search = firstSearchConfig[search_account_name]

C3_Witness ==
    /\ pc = "returned"
    /\ response.status = 200
    /\ storage_account_name \in DOMAIN storageAtCall
    /\ search_account_name \in DOMAIN searchAtCall
    /\ <<search_account_name, index_name>> \in indexesAtCall
    /\ NoFaultIn(StorageOps \cup SearchOps)

\* C6: the names under which the storage account and the search service are
\* created are the title lower-cased, stripped to [a-z0-9] and cut to 20
\* characters, followed by the time-derived suffix.
C6_NamesFromTitle ==
    /\ storage_account_name # <<>> =>
          storage_account_name = sanitized_title \o Decimal(storage_time % SuffixMod)
    /\ search_account_name # <<>> =>
          search_account_name = sanitized_title \o Decimal(search_time % SuffixMod)

C8_ProbeFailureMeansAbsent ==
    \A i \in 1..Len(ops) :
        /\ (ops[i].op \in ProbeOps /\ ops[i].result # "ok") =>
              IF i = Len(ops)
              THEN pc = (IF ops[i].op = "storage.get_properties"
                         THEN "storage_create" ELSE "search_create")
              ELSE /\ ops[i + 1].name = ops[i].name
                   /\ ops[i + 1].op = (IF ops[i].op = "storage.get_properties"
                                       THEN "storage.begin_create"
                                       ELSE "search.begin_create")
        /\ (ops[i].op \in ProbeOps /\ ops[i].result = "ok") =>
              /\ i = Len(ops) => pc \notin {"storage_create", "search_create"}
              /\ i < Len(ops) =>
                    ops[i + 1].op \notin {"storage.begin_create", "search.begin_create"}
        /\ ops[i].op \in {"storage.begin_create", "search.begin_create"} =>
              /\ i > 1
              /\ ops[i - 1].op \in ProbeOps
              /\ ops[i - 1].result # "ok"

C8_Witness ==
    /\ \E i \in 1..Len(ops) :
          /\ ops[i].op = "storage.get_properties"
          /\ ops[i].result = "Auth"
          /\ ops[i].name \in DOMAIN storageAtCall
          /\ i < Len(ops)
          /\ ops[i + 1].op = "storage.begin_create"
    /\ \E i \in 1..Len(ops) :
          /\ ops[i].op = "search.accounts.get"
          /\ ops[i].result = "Transient"
          /\ i < Len(ops)
          /\ ops[i + 1].op = "search.begin_create"

\* C9: within a request every external operation is invoked at most once, in
\* the fixed order with storage before search; after the first failing
\* creation, key or index operation nothing more is issued and the answer is
\* 500; 200 is returned only after create_or_update_index has completed.
C9_NoRetry ==
    LET ext == SelectSeq(ops, IsProviderOp) IN
    /\ \A i, j \in 1..Len(ext) : i < j => Rank(ext[i].op) < Rank(ext[j].op)
    /\ \A i \in 1..Len(ops) :
          (ops[i].op \notin ProbeOps /\ ops[i].result # "ok") =>
              /\ i = Len(ops)
              /\ pc = "returned"
              /\ response.status = 500
    /\ response.status = 200 =>
          /\ Len(ops) > 0
          /\ ops[Len(ops)].op = "search.create_or_update_index"
          /\ ops[Len(ops)].result = "ok"

C9_Witness ==
    /\ pc = "returned"
    /\ response.status = 500
    /\ Len(ops) = 6
    /\ ops[2].result = "Transient"
    /\ ops[6].op = "search.begin_create"
    /\ ops[6].result = "Fault"

\* C10: the cached key is None exactly as long as no request has completed
\* its storage step, and otherwise is the key the latest completed storage
\* step returned, also when that request then failed in the search step;
\* every other request leaves it alone.
C10_CachedKey ==
    /\ (AZURE_STORAGE_ACCOUNT_KEY = None) <=> ~storage_step_done
    /\ AZURE_STORAGE_ACCOUNT_KEY = storage_step_key
    /\ Issued("storage.list_keys") /\ NoFaultIn({"storage.list_keys"}) =>
          AZURE_STORAGE_ACCOUNT_KEY = storage_config["AZURE_STORAGE_KEY"]

C10_Witness ==
    /\ pc = "returned"
    /\ response.status = 500
    /\ requests = 2
    /\ Cardinality(DOMAIN firstStorageConfig) = 2
    /\ \E n \in DOMAIN firstStorageConfig :
          firstStorageConfig[n]["AZURE_STORAGE_KEY"] # AZURE_STORAGE_ACCOUNT_KEY
    /\ AZURE_STORAGE_ACCOUNT_KEY = storage_config["AZURE_STORAGE_KEY"]
    /\ AZURE_STORAGE_ACCOUNT_KEY # None

----------------------------------------------------------------------------
(* Properties of list_db *)

ReadSequence == <<"connect", "databases", "users", "contributors", "files", "tags">>

AllRead ==
    /\ Len(queries) = Len(ReadSequence)
    /\ \A i \in 1..Len(queries) :
          queries[i].step = ReadSequence[i] /\ queries[i].result = "ok"

\* the rows of `table` of database d, each reduced by Item
RowsOf(table, d, Item(_)) ==
    LET mine(r) == r.database_id = d
        kept == SelectSeq(table, mine)
    IN  [i \in 1..Len(kept) |-> Item(kept[i])]

HasUser(u) == \E i \in 1..Len(users) : users[i].id = u

NameOfUser(u) == users[CHOOSE i \in 1..Len(users) : users[i].id = u].name

\* the contributor links of database d whose user is a row of `users`
LinkedUsers(d) ==
    LET mine(r) == r.database_id = d /\ HasUser(r.user_id)
        kept == SelectSeq(database_contributors, mine)
    IN  [i \in 1..Len(kept) |->
            [id |-> kept[i].user_id, name |-> NameOfUser(kept[i].user_id)]]

FileOf(r) == [name |-> r.name]

TagOf(r) == r.tag

UserIdOf(r) == r.user_id

IdOf(c) == c.id

IdsOf(items) == [i \in 1..Len(items) |-> IdOf(items[i])]

\* what every entry shows of its own row, its owner, its files and its tags
EntryOfRow(e, row) ==
    /\ e.id = row.id
    /\ e.owner.id = row.owner_id
    /\ e.owner.name = (IF HasUser(row.owner_id) THEN NameOfUser(row.owner_id)
                       ELSE "Unknown")
    /\ e.files = RowsOf(database_files, row.id, FileOf)
    /\ e.tags = RowsOf(database_tags, row.id, TagOf)

\* C4: if any step of the read sequence fails, the answer is 500 in plain
\* text with no catalog entries; a 200 answer with a 'databases' list comes
\* only after connect and all five queries have succeeded.
C4_AllOrNothing ==
    /\ (\E i \in 1..Len(queries) : queries[i].result # "ok") =>
          /\ lpc = "returned"
          /\ list_response.status = 500
          /\ list_response.mimetype = "text/plain"
          /\ "databases" \notin DOMAIN list_response.payload
    /\ list_response.status = 200 =>
          /\ AllRead
          /\ "databases" \in DOMAIN list_response.payload
    /\ list_response.status \in {0, 200, 500}

C4_Witness ==
    /\ lpc = "returned"
    /\ list_response.status = 500
    /\ Len(queries) = 6
    /\ queries[6].step = "tags"
    /\ queries[6].result = "Fault"
    /\ Len(databases_raw) = 2
    /\ DOMAIN contributors_map # {}

\* C5 as stated: one entry per row of `databases`, in row order, whose
\* contributors, files and tags are exactly the rows of the respective table
\* with that database_id, and whose owner name is the matching user's or
\* "Unknown", the request not failing.
C5_ExactRows ==
    (lpc = "returned" /\ AllRead) =>
        /\ list_response.status = 200
        /\ Len(list_response.payload.databases) = Len(databases)
        /\ \A i \in 1..Len(databases) :
              /\ EntryOfRow(list_response.payload.databases[i], databases[i])
              /\ IdsOf(list_response.payload.databases[i].contributors) =
                    RowsOf(database_contributors, databases[i].id, UserIdOf)

\* C5 as amended: the contributors of an entry are the links of
\* database_contributors with that database_id whose user_id is a row of
\* `users`, in link order and with that user's name; a link to no user is
\* left out. Files, tags, owner and the one entry per row are as stated.
C5_JoinedRows ==
    (lpc = "returned" /\ AllRead) =>
        /\ list_response.status = 200
        /\ Len(list_response.payload.databases) = Len(databases)
        /\ \A i \in 1..Len(databases) :
              /\ EntryOfRow(list_response.payload.databases[i], databases[i])
              /\ list_response.payload.databases[i].contributors =
                    LinkedUsers(databases[i].id)

C5_Witness ==
    /\ lpc = "returned"
    /\ list_response.status = 200
    /\ Len(databases) = 2
    /\ \E i \in 1..2 :
          LET e == list_response.payload.databases[i] IN
          /\ e.owner.name = "Unknown"
          /\ e.tags = <<>>
          /\ e.files = <<>>
          /\ Len(e.contributors) = 1
          /\ Len(RowsOf(database_contributors, e.id, UserIdOf)) = 2

====
